---- MODULE Spec2Model ----
(***************************************************************************)
(* State-machine model of mp3-2-cdda: the GUI control thread               *)
(* (src/src/main.rs, ConverterApp) and the batch worker thread running     *)
(* conversion::convert_files / process_file (src/src/conversion.rs).       *)
(* The shared Arc<Mutex<bool>> cancel_flag is read and written under its   *)
(* lock, so every access is one atomic step; the two threads interleave    *)
(* between any two steps of the worker.                                    *)
(***************************************************************************)
EXTENDS Integers, Sequences, FiniteSets, TLC

\* ------------------------------------------------------------------ bounds
MaxPaths == 2      \* input paths in one batch
MaxFiles == 2      \* mp3 files found under one scanned directory
MaxPackets == 2    \* packets next_packet can deliver for one file
MaxFrames == 1     \* stereo frames one decoded packet contributes
MaxSamples == 3    \* interleaved samples in one decoded block (sample level)

\* --------------------------------------------------------------- constants
TargetRate == 44100
MaxI16 == 32767    \* i16::MAX
MinI16 == 0 - MaxI16 - 1

\* Sample values of decoded blocks: both ends of the 16-bit range.
Samples == {MinI16, MaxI16}

\* What the resampler can return for a sample, scaled by i16::MAX and
\* rounded: silence, or an overshoot past full scale.
Scaled == {0, MaxI16 + 1}

\* A source rate other than the target, which sends blocks to the resampler.
OtherRate == TargetRate \div 2

Rates == {TargetRate, OtherRate}

\* File stems: two files with the same stem share one output path.
Stems == {"t", "u"}

\* What the file system holds at an input path: a regular file, a
\* directory, or nothing (a missing path).
Kinds == {"file", "dir", "missing"}

\* Extensions of file names, as sequences of characters.
Mp3 == <<"m", "p", "3">>
Exts == {Mp3, <<"M", "P", "3">>, <<"t", "x", "t">>}

\* The selected path with id i: every path the dialog returns lies in one
\* directory "m".
PathOf(i) == <<"m", ToString(i)>>

\* Path::parent and Path::join on paths as sequences of components.
Parent(p) == SubSeq(p, 1, Len(p) - 1)
Join(p, name) == Append(p, name)

\* lines 56-57: output_folder of an input path
OutputFolder(p) == Join(Parent(p), "CDDA_Converted")

\* What the enumeration of the current path has read and done: the kind of
\* the path, the extensions of the regular files it looked at (the path
\* itself, or the entries WalkDir yields), which of them it pushed to
\* files_to_process, for which of them it logged a warning that names the
\* file, and the number of warnings it logged.
NoScan == [kind |-> "none", exts |-> <<>>, cand |-> <<>>, warned |-> <<>>,
           warns |-> 0]

\* The output file at <output_folder>/<stem>.wav as the WAV writer leaves it:
\* ex (exists), hdr (frame count the header states), data (frames stored).
NoFile == [ex |-> FALSE, hdr |-> 0, data |-> 0]

\* The process_file call in progress: the writer ("none", "open",
\* "finalized" or "dropped"; written; fin = number of finalize calls; path
\* = output_path), the decoder side (input = the input File: "none", "open"
\* or "released"; pulls, pending, rate) and how the call ended (stop = why
\* the loop ended, exit, result).
NoCall == [stem |-> "", created |-> FALSE, writer |-> "none",
           written |-> 0, pending |-> 0, pulls |-> 0, fin |-> 0,
           rate |-> 0, stop |-> "none", exit |-> "none", result |-> "none",
           pullsAfterFlag |-> 0, flagAtHead |-> FALSE, input |-> "none",
           path |-> <<>>, replaced |-> FALSE]

VARIABLES
    selected_files,   \* ConverterApp.selected_files (path ids)
    is_processing,    \* ConverterApp.is_processing
    last_error,       \* ConverterApp.last_error is Some(..)
    cancel_flag,      \* the shared Arc<Mutex<bool>>
    pc,               \* position of the worker thread
    paths,            \* convert_files: the Vec<PathBuf> moved into the worker
    pi,               \* convert_files: index of the outer loop
    files_to_process, \* convert_files: files of the current path (file ids)
    fi,               \* convert_files: index of the inner loop
    disk,             \* output files by stem
    call,             \* the process_file call in progress
    unstarted,        \* enumerated files for which process_file was not started
    any_failed,       \* some process_file call has returned Err
    mkdir_failed,     \* create_dir_all has returned Err
    cf_result,        \* what convert_files returned
    status,           \* messages sent on status_sender
    observed,         \* a between-files check has read the flag as true
    scan,             \* convert_files: what the enumeration found at `path`
    folders,          \* the output directories created so far
    au_pc,            \* sample level: position in the streaming loop
    signal_spec,      \* sample level: SignalSpec of the track
    block,            \* sample level: sample_buf.samples() of the decoded block
    decoded,          \* sample level: decoded samples of an equal-rate source
    wav,              \* sample level: the samples handed to write_sample
    au_packets,       \* sample level: packets decoded so far
    resamplers        \* sample level: SincFixedIn instances constructed so far

vars == <<selected_files, is_processing, last_error, cancel_flag, pc, paths, pi,
          files_to_process, fi, disk, call, unstarted, any_failed,
          mkdir_failed, cf_result, status, observed, scan, folders,
          au_pc, signal_spec, block, decoded, wav, au_packets, resamplers>>

fsv == <<scan, folders>>
audio == <<au_pc, signal_spec, block, decoded, wav, au_packets, resamplers>>
mainv == <<selected_files, is_processing, last_error, cancel_flag, pc, paths,
           pi, files_to_process, fi, disk, call, unstarted, any_failed,
           mkdir_failed, cf_result, status, observed, scan, folders>>

gui == <<selected_files, is_processing, last_error>>
loopv == <<paths, pi, files_to_process, fi>>
outv == <<unstarted, any_failed, mkdir_failed, cf_result, status>>

\* ConverterApp::default, no worker thread, nothing written yet.
Idle ==
    /\ selected_files = <<>>
    /\ is_processing = FALSE
    /\ last_error = FALSE
    /\ cancel_flag = FALSE
    /\ pc = "idle"
    /\ paths = <<>>
    /\ pi = 0
    /\ files_to_process = <<>>
    /\ fi = 0
    /\ disk = [s \in Stems |-> NoFile]
    /\ call = NoCall
    /\ unstarted = 0
    /\ any_failed = FALSE
    /\ mkdir_failed = FALSE
    /\ cf_result = "none"
    /\ status = <<>>
    /\ observed = FALSE
    /\ scan = NoScan
    /\ folders = {}

Init ==
    /\ Idle
    /\ au_pc = "off"
    /\ signal_spec = [rate |-> 0, channels |-> 0]
    /\ block = <<>>
    /\ decoded = <<>>
    /\ wav = <<>>
    /\ au_packets = 0
    /\ resamplers = 0

\* ---------------------------------------------------------------- the GUI

\* select_files: the dialog returns Some(files); None changes nothing.
\* What each path is on disk is read when convert_files looks at it.
SelectFiles ==
    /\ ~is_processing
    /\ \E n \in 1..MaxPaths : selected_files' = [i \in 1..n |-> i]
    /\ last_error' = FALSE
    /\ UNCHANGED <<is_processing, cancel_flag, pc, loopv, disk, call, outv,
                   observed, fsv, audio>>

\* Mutant of StartConversion: the Convert button is offered whatever
\* is_processing says, so a batch can be started over a running one.
StartConversionUnguarded ==
    /\ selected_files # <<>>
    /\ is_processing' = TRUE
    /\ cancel_flag' = FALSE
    /\ paths' = selected_files
    /\ pc' = "cf_entry"
    /\ UNCHANGED <<selected_files, last_error, pi, files_to_process,
                   fi, disk, call, outv, observed, fsv, audio>>

\* start_conversion, reached from the Convert button, which update() shows
\* only while is_processing is false and selected_files is not empty.
StartConversion ==
    /\ ~is_processing
    /\ selected_files # <<>>
    /\ IF selected_files = <<>>
       THEN /\ last_error' = TRUE
            /\ UNCHANGED <<selected_files, is_processing, cancel_flag, pc,
                           loopv, disk, call, outv, observed, fsv, audio>>
       ELSE /\ is_processing' = TRUE
            /\ cancel_flag' = FALSE
            /\ paths' = selected_files
            /\ pc' = "cf_entry"
            /\ UNCHANGED <<selected_files, last_error, pi, files_to_process,
                           fi, disk, call, outv, observed, fsv, audio>>

\* show_conversion_progress: the Cancel button, shown while is_processing.
Cancel ==
    /\ is_processing
    /\ cancel_flag' = TRUE
    /\ UNCHANGED <<audio, fsv, gui, pc, loopv, disk, call, outv, observed>>

\* ---------------------------------------------------------- convert_files

\* lines 19-21
CfEntry ==
    /\ pc = "cf_entry"
    /\ IF paths = <<>>
       THEN /\ cf_result' = "Ok"
            /\ pc' = "cf_send"
            /\ pi' = pi
       ELSE /\ pi' = 1
            /\ pc' = "outer"
            /\ cf_result' = cf_result
    /\ UNCHANGED <<audio, fsv, gui, cancel_flag, paths, files_to_process, fi,
                   disk, call, unstarted, any_failed, mkdir_failed, status,
                   observed>>

\* lines 23-27: the head of `for path in paths` and its cancellation check
OuterCheck ==
    /\ pc = "outer"
    /\ IF pi > Len(paths)
       THEN pc' = "cf_ok" /\ observed' = observed
       ELSE IF cancel_flag
            THEN pc' = "cf_ok" /\ observed' = TRUE
            ELSE pc' = "enum" /\ observed' = observed
    /\ scan' = NoScan
    /\ UNCHANGED <<audio, folders, gui, cancel_flag, loopv, disk, call, outv>>

\* lines 38 and 44: extension().and_then(|s| s.to_str()) == Some("mp3")
IsMp3(ext) == ext = Mp3

SeqsUpTo(S, n) == UNION {[1..k -> S] : k \in 0..n}

\* Which of the files looked at are pushed to files_to_process.
Pushed(exts) == [i \in 1..Len(exts) |-> IsMp3(exts[i])]

\* files_to_process as file ids, one per pushed file.
FilesOf(cand) == [i \in 1..Cardinality({j \in 1..Len(cand) : cand[j]}) |-> i]

\* lines 29-54: files_to_process of the current path. A directory is
\* walked and its regular files with extension mp3 are pushed; any other
\* path is taken as a single file if its name has extension mp3, without a
\* look at the file system, and is skipped with a warning if not; a
\* directory without mp3 files is skipped with a warning.
Enumerate ==
    /\ pc = "enum"
    /\ \E kind \in Kinds, exts \in SeqsUpTo(Exts, MaxFiles) :
        /\ kind # "dir" => Len(exts) = 1
        /\ LET cand == Pushed(exts)
               files == FilesOf(cand)
               \* line 47 names the path, line 52 the directory
               warned == [i \in 1..Len(exts) |-> kind # "dir" /\ ~cand[i]]
               none == [i \in 1..Len(exts) |-> FALSE]
           IN  IF files = <<>>
               THEN /\ scan' = [kind |-> kind, exts |-> exts, cand |-> cand,
                                warned |-> warned, warns |-> 1]
                    /\ pi' = pi + 1
                    /\ pc' = "outer"
                    /\ UNCHANGED <<files_to_process, unstarted>>
               ELSE /\ scan' = [kind |-> kind, exts |-> exts, cand |-> cand,
                                warned |-> none, warns |-> 0]
                    /\ files_to_process' = files
                    /\ unstarted' = unstarted + Len(files)
                    /\ pc' = "mkdir"
                    /\ pi' = pi
    /\ UNCHANGED <<audio, folders, gui, cancel_flag, paths, fi, disk, call,
                   any_failed, mkdir_failed, cf_result, status, observed>>

\* lines 56-59: fs::create_dir_all(&output_folder)?; a directory that
\* exists already is no error.
CreateDirAll ==
    /\ pc = "mkdir"
    /\ \E ok \in BOOLEAN :
        IF ok
        THEN /\ folders' = folders \cup {OutputFolder(PathOf(paths[pi]))}
             /\ fi' = 1
             /\ pc' = "inner"
             /\ UNCHANGED <<cf_result, mkdir_failed, scan>>
        ELSE /\ cf_result' = "Err"
             /\ mkdir_failed' = TRUE
             /\ pc' = "cf_send"
             /\ scan' = NoScan
             /\ UNCHANGED <<fi, folders>>
    /\ UNCHANGED <<audio, gui, cancel_flag, paths, pi, files_to_process, disk,
                   call, unstarted, any_failed, status, observed>>

\* Mutant of InnerCheck: the cancellation is logged but the `break` is
\* missing, so process_file is called all the same.
InnerCheckNoBreak ==
    /\ pc = "inner"
    /\ IF fi > Len(files_to_process)
       THEN /\ pi' = pi + 1
            /\ pc' = "outer"
            /\ UNCHANGED <<observed, call, unstarted>>
       ELSE /\ observed' = (observed \/ cancel_flag)
            /\ pc' = "pf_open"
            /\ \E s \in Stems : call' = [NoCall EXCEPT !.stem = s]
            /\ unstarted' = unstarted - 1
            /\ pi' = pi
    /\ scan' = NoScan
    /\ UNCHANGED <<audio, folders, gui, cancel_flag, paths, files_to_process,
                   fi, disk, any_failed, mkdir_failed, cf_result, status>>

\* lines 61-68: the head of `for file_path in files_to_process`, its
\* cancellation check, and the call of process_file
InnerCheck ==
    /\ pc = "inner"
    /\ IF fi > Len(files_to_process)
       THEN /\ pi' = pi + 1
            /\ pc' = "outer"
            /\ UNCHANGED <<observed, call, unstarted>>
       ELSE IF cancel_flag
            THEN /\ observed' = TRUE
                 /\ pi' = pi + 1
                 /\ pc' = "outer"
                 /\ UNCHANGED <<call, unstarted>>
            ELSE /\ pc' = "pf_open"
                 /\ \E s \in Stems : call' = [NoCall EXCEPT !.stem = s]
                 /\ unstarted' = unstarted - 1
                 /\ UNCHANGED <<observed, pi>>
    /\ scan' = NoScan
    /\ UNCHANGED <<audio, folders, gui, cancel_flag, paths, files_to_process,
                   fi, disk, any_failed, mkdir_failed, cf_result, status>>

\* ----------------------------------------------------------- process_file

\* The WavWriter going out of scope. finalize() consumes the writer; when
\* process_file leaves through `?` without it, the writer is dropped
\* unfinalized and whether the header on disk gets the final length is
\* up to the library's destructor: upd is that outcome.
DropWriter(c, upd) ==
    IF c.writer = "open" /\ upd
    THEN [disk EXCEPT ![c.stem].hdr = disk[c.stem].data]
    ELSE disk

\* The locals of process_file going out of scope at a return: the format
\* reader is dropped and with it the input File it owns.
DropLocals(c) == [c EXCEPT !.input = IF @ = "open" THEN "released" ELSE @]

\* Mutant of PfFail: the error path returns with the handles still held.
PfFailKeepsHandles(c, why, upd) ==
    /\ call' = [c EXCEPT !.exit = why, !.result = "Err"]
    /\ disk' = disk
    /\ pc' = "pf_ret"

\* An early return through `?`: Err(..) with the given context.
PfFail(c, why, upd) ==
    /\ call' = DropLocals([c EXCEPT !.exit = why, !.result = "Err",
                             !.writer = IF @ = "open" THEN "dropped" ELSE @])
    /\ disk' = DropWriter(c, upd)
    /\ pc' = "pf_ret"

\* One fallible step of the opening phase that touches nothing on disk.
OpeningStep(here, next, why) ==
    /\ pc = here
    /\ \E ok \in BOOLEAN :
        IF ok
        THEN pc' = next /\ UNCHANGED <<call, disk>>
        ELSE PfFail(call, why, FALSE)
    /\ UNCHANGED <<audio, fsv, gui, cancel_flag, loopv, outv, observed>>

\* lines 83-84: File::open(input_path)?
PfOpenInput ==
    /\ pc = "pf_open"
    /\ \E ok \in BOOLEAN :
        IF ok
        THEN /\ call' = [call EXCEPT !.input = "open"]
             /\ pc' = "pf_probe"
             /\ disk' = disk
        ELSE PfFail(call, "open", FALSE)
    /\ UNCHANGED <<audio, fsv, gui, cancel_flag, loopv, outv, observed>>

\* lines 90-95: get_probe().format(..)?
PfProbe == OpeningStep("pf_probe", "pf_track", "probe")

\* lines 98-99: format.default_track().ok_or_else(..)?
PfDefaultTrack == OpeningStep("pf_track", "pf_decoder", "track")

\* lines 101-103: get_codecs().make(..)?
PfMakeDecoder == OpeningStep("pf_decoder", "pf_create", "decoder")

\* lines 105-110: output_dir.join(file_stem + ".wav"); the file name is
\* the pair of stem and extension.
OutputPath(dir, stem) == Join(dir, <<stem, "wav">>)

\* Mutant of PfFileCreate: the output file is opened for appending, so what
\* a file at that path held stays in front of the new samples.
PfFileCreateAppend ==
    /\ pc = "pf_create"
    /\ \E ok \in BOOLEAN :
        IF ok
        THEN /\ disk' = [disk EXCEPT ![call.stem].ex = TRUE]
             /\ call' = [call EXCEPT
                            !.created = TRUE,
                            !.replaced = disk[call.stem].ex,
                            !.path = OutputPath(OutputFolder(PathOf(paths[pi])),
                                                call.stem)]
             /\ pc' = "pf_wavnew"
        ELSE PfFail(call, "create", FALSE)
    /\ UNCHANGED <<audio, fsv, gui, cancel_flag, loopv, outv, observed>>

\* lines 105-110 and prepare_wav_writer lines 150-151: File::create(path)?
\* creates the file or truncates the one already there. `replaced` notes,
\* until the WavWriter is built, that a file was there.
PfFileCreate ==
    /\ pc = "pf_create"
    /\ \E ok \in BOOLEAN :
        IF ok
        THEN /\ disk' = [disk EXCEPT ![call.stem] =
                            [ex |-> TRUE, hdr |-> 0, data |-> 0]]
             /\ call' = [call EXCEPT
                            !.created = TRUE,
                            !.replaced = disk[call.stem].ex,
                            !.path = OutputPath(OutputFolder(PathOf(paths[pi])),
                                                call.stem)]
             /\ pc' = "pf_wavnew"
        ELSE PfFail(call, "create", FALSE)
    /\ UNCHANGED <<audio, fsv, gui, cancel_flag, loopv, outv, observed>>

\* prepare_wav_writer lines 152-154 and line 113: WavWriter::new(..)?
PfWavWriterNew ==
    /\ pc = "pf_wavnew"
    /\ \E ok \in BOOLEAN :
        IF ok
        THEN /\ call' = [call EXCEPT !.writer = "open", !.replaced = FALSE]
             /\ pc' = "pf_spec"
             /\ disk' = disk
        ELSE PfFail(call, "wavnew", FALSE)
    /\ UNCHANGED <<audio, fsv, gui, cancel_flag, loopv, outv, observed>>

\* lines 115-118: sample_rate.map(..).ok_or_else("Missing sample rate")?
PfSignalSpec ==
    /\ pc = "pf_spec"
    /\ \/ \E r \in Rates :
            /\ call' = [call EXCEPT !.rate = r, !.flagAtHead = cancel_flag]
            /\ pc' = "pf_next"
            /\ disk' = disk
       \/ \E upd \in BOOLEAN : PfFail(call, "rate", upd)
    /\ UNCHANGED <<audio, fsv, gui, cancel_flag, loopv, outv, observed>>

\* line 121: while let Ok(packet) = format.next_packet(). Any Err, the end
\* of the stream or a read error, leaves the loop. flagAtHead is the
\* value the flag had when control reached the head of the loop.
PfNextPacket ==
    /\ pc = "pf_next"
    /\ LET c == [call EXCEPT !.pullsAfterFlag =
                     @ + (IF cancel_flag THEN 1 ELSE 0),
                             !.flagAtHead = FALSE] IN
       \/ /\ call.pulls < MaxPackets
          /\ call' = [c EXCEPT !.pulls = @ + 1]
          /\ pc' = "pf_check"
       \/ \E why \in {"eos", "pull_error"} :
            /\ call' = [c EXCEPT !.stop = why]
            /\ pc' = "pf_finalize"
    /\ UNCHANGED <<audio, fsv, gui, cancel_flag, loopv, disk, outv,
                   observed>>

\* lines 122-123: the cancellation check, made once a packet was pulled
PfCancelCheck ==
    /\ pc = "pf_check"
    /\ IF cancel_flag
       THEN /\ call' = [call EXCEPT !.stop = "cancel"]
            /\ pc' = "pf_fin_cancel"
       ELSE /\ pc' = "pf_decode"
            /\ call' = call
    /\ UNCHANGED <<audio, fsv, gui, cancel_flag, loopv, disk, outv,
                   observed>>

\* lines 128-129: decoder.decode(&packet)?
PfDecode ==
    /\ pc = "pf_decode"
    /\ \/ \E nf \in 1..MaxFrames :
            /\ call' = [call EXCEPT !.pending = nf]
            /\ pc' = "pf_buffer"
            /\ disk' = disk
       \/ \E upd \in BOOLEAN :
            PfFail([call EXCEPT !.stop = "decode_error"], "decode", upd)
    /\ UNCHANGED <<audio, fsv, gui, cancel_flag, loopv, outv, observed>>

\* Frames process_audio_buffer hands to the writer for a block of nf frames:
\* the block itself at the target rate (lines 170-174), the resampler's
\* output otherwise (lines 166-168, 228-247).
OutFrames(nf, rate) ==
    IF rate = TargetRate THEN {nf} ELSE 0..(2 * nf)

\* Writing m frames with write_sample, of which the first j succeed.
WriteFrames(c, j) ==
    /\ disk' = [disk EXCEPT ![c.stem].data = @ + j]
    /\ call' = [c EXCEPT !.written = @ + j, !.pending = 0,
                         !.flagAtHead = cancel_flag]

\* lines 131-132, process_audio_buffer (157-178), resample_audio (191-251)
PfProcessAudioBuffer ==
    /\ pc = "pf_buffer"
    /\ \E m \in OutFrames(call.pending, call.rate) :
        \/ /\ WriteFrames(call, m)
           /\ pc' = "pf_next"
        \/ \E j \in 0..(m - 1), upd \in BOOLEAN :
           \* write_sample fails after j frames
            /\ call' = DropLocals([call EXCEPT
                                      !.written = @ + j, !.pending = 0,
                                      !.exit = "write", !.result = "Err",
                                      !.writer = "dropped"])
            /\ disk' = [disk EXCEPT
                          ![call.stem].data = @ + j,
                          ![call.stem].hdr =
                              IF upd THEN disk[call.stem].data + j ELSE @]
            /\ pc' = "pf_ret"
        \/ /\ call.rate # TargetRate
           \* SincFixedIn::new or resampler.process fails
           /\ \E upd \in BOOLEAN : PfFail(call, "resample", upd)
    /\ UNCHANGED <<audio, fsv, gui, cancel_flag, loopv, outv, observed>>

\* writer.finalize(): consumes the writer and brings the header up to date;
\* on an I/O error the header may or may not have reached the disk.
Finalize(c, ok, upd, how) ==
    /\ disk' = IF ok \/ upd
               THEN [disk EXCEPT ![c.stem].hdr = disk[c.stem].data]
               ELSE disk
    /\ call' = DropLocals([c EXCEPT !.fin = @ + 1, !.writer = "finalized",
                                    !.exit = IF ok THEN how ELSE "finalize",
                                    !.result = IF ok THEN "Ok" ELSE "Err"])
    /\ pc' = "pf_ret"

\* lines 124-125: finalize and return Ok(()) on cancellation
PfFinalizeCancel ==
    /\ pc = "pf_fin_cancel"
    /\ \E ok \in BOOLEAN, upd \in BOOLEAN : Finalize(call, ok, upd, "cancel")
    /\ UNCHANGED <<audio, fsv, gui, cancel_flag, loopv, outv, observed>>

\* lines 135-139: finalize and return Ok(()) when the loop has ended
PfFinalize ==
    /\ pc = "pf_finalize"
    /\ \E ok \in BOOLEAN, upd \in BOOLEAN : Finalize(call, ok, upd, "done")
    /\ UNCHANGED <<audio, fsv, gui, cancel_flag, loopv, outv, observed>>

\* lines 68-70: the caller logs an Err and goes on with the next file
PfReturn ==
    /\ pc = "pf_ret"
    /\ any_failed' = (any_failed \/ call.result = "Err")
    /\ call' = NoCall
    /\ fi' = fi + 1
    /\ pc' = "inner"
    /\ UNCHANGED <<audio, fsv, gui, cancel_flag, paths, pi, files_to_process,
                   disk, unstarted, mkdir_failed, cf_result, status, observed>>

\* lines 74-75: "Conversion process complete!", Ok(())
CfOk ==
    /\ pc = "cf_ok"
    /\ cf_result' = "Ok"
    /\ pc' = "cf_send"
    /\ UNCHANGED <<audio, fsv, gui, cancel_flag, loopv, disk, call, unstarted,
                   any_failed, mkdir_failed, status, observed>>

\* Mutant of WorkerSend: with its status message the worker also puts
\* is_processing back to false.
WorkerSendResets ==
    /\ pc = "cf_send"
    /\ status' = Append(status, cf_result)
    /\ pc' = "done"
    /\ is_processing' = FALSE
    /\ UNCHANGED <<audio, fsv, selected_files, last_error, cancel_flag, loopv,
                   disk, call, unstarted, any_failed, mkdir_failed, cf_result,
                   observed>>

\* main.rs lines 59-65: the worker closure sends its one status message
WorkerSend ==
    /\ pc = "cf_send"
    /\ status' = Append(status, cf_result)
    /\ pc' = "done"
    /\ UNCHANGED <<audio, fsv, gui, cancel_flag, loopv, disk, call, unstarted,
                   any_failed, mkdir_failed, cf_result, observed>>

Worker ==
    \/ CfEntry \/ OuterCheck \/ Enumerate \/ CreateDirAll \/ InnerCheck
    \/ PfOpenInput \/ PfProbe \/ PfDefaultTrack \/ PfMakeDecoder
    \/ PfFileCreate \/ PfWavWriterNew \/ PfSignalSpec
    \/ PfNextPacket \/ PfCancelCheck \/ PfDecode \/ PfProcessAudioBuffer
    \/ PfFinalizeCancel \/ PfFinalize \/ PfReturn
    \/ CfOk \/ WorkerSend

Next == SelectFiles \/ StartConversion \/ Cancel \/ Worker

Spec == Init /\ [][Next]_vars

\* The worker is an OS thread: it keeps being scheduled while it has a step.
FairSpec == Spec /\ WF_vars(Worker)

\* ------------------------------------------------------- the sample level
\* The samples of one file on their way from the decoder to the writer:
\* process_audio_buffer, convert_to_stereo and resample_audio applied to
\* the blocks of a stream, until the stream ends or a write fails.

\* Decoded blocks: sample_buf.samples(), interleaved, whole frames only.
Blocks(channels) ==
    {b \in SeqsUpTo(Samples, MaxSamples) : Len(b) > 0 /\ Len(b) % channels = 0}

\* flat_map(|s| [*s, *s])
Dup(b) == [i \in 1..(2 * Len(b)) |-> b[(i + 1) \div 2]]

\* Mutant of ConvertToStereo: every sample is doubled, whatever the channels.
ConvertToStereoAlways(b, channels) == Dup(b)

\* Mutant of ConvertToStereo: the block is passed through as it is.
ConvertToStereoNever(b, channels) == b

\* convert_to_stereo, lines 180-189
ConvertToStereo(b, channels) == IF channels = 1 THEN Dup(b) ELSE b

\* `as i16` on a rounded f64: the cast saturates.
ToI16(v) == IF v > MaxI16 THEN MaxI16 ELSE IF v < MinI16 THEN MinI16 ELSE v

\* What resampler.process can return: one sequence per channel, all of one
\* length, of at most as many samples as a block has.
ResamplerOutputs(channels) ==
    {out \in [1..channels -> SeqsUpTo(Scaled, MaxSamples \div channels)] :
        \A c \in 1..channels : Len(out[c]) = Len(out[1])}

\* lines 231-242: resampled_i16, both channels from resampled[0] for a mono
\* source, resampled[0] zipped with resampled[1] otherwise
ResampledI16(out, channels) ==
    IF channels = 1
    THEN Dup([i \in 1..Len(out[1]) |-> ToI16(out[1][i])])
    ELSE [i \in 1..(2 * Len(out[1])) |->
            ToI16(out[IF i % 2 = 1 THEN 1 ELSE 2][(i + 1) \div 2])]

InitAudio ==
    /\ Idle
    /\ au_pc = "decode"
    /\ signal_spec \in [rate : Rates, channels : {1, 2}]
    /\ block = <<>>
    /\ decoded = <<>>
    /\ wav = <<>>
    /\ au_packets = 0
    /\ resamplers = 0

\* lines 121 and 128: a packet is pulled and decoded into a block
DecodeBlock ==
    /\ au_pc = "decode"
    /\ au_packets < MaxPackets
    /\ \E b \in Blocks(signal_spec.channels) :
        /\ block' = b
        /\ decoded' = IF signal_spec.rate = TargetRate
                      THEN decoded \o b ELSE decoded
    /\ au_packets' = au_packets + 1
    /\ au_pc' = "buffer"
    /\ UNCHANGED <<mainv, signal_spec, wav, resamplers>>

\* line 121: next_packet returns Err, the loop ends
EndOfStream ==
    /\ au_pc = "decode"
    /\ au_pc' = "end"
    /\ UNCHANGED <<mainv, signal_spec, block, decoded, wav, au_packets,
                   resamplers>>

\* The write_sample loops (lines 171-174, 244-247): the first j samples
\* are written; the first failure returns through `?`.
WriteSamples(samples) ==
    \E j \in 0..Len(samples) :
        /\ wav' = wav \o SubSeq(samples, 1, j)
        /\ au_pc' = IF j = Len(samples) THEN "decode" ELSE "failed"

\* process_audio_buffer, lines 157-178, with resample_audio, lines 191-251:
\* a source at another rate gets a new SincFixedIn for this block.
ProcessAudioBuffer ==
    /\ au_pc = "buffer"
    /\ IF signal_spec.rate # TargetRate
       THEN \/ /\ resamplers' = resamplers + 1
               /\ \E out \in ResamplerOutputs(signal_spec.channels) :
                    WriteSamples(ResampledI16(out, signal_spec.channels))
            \/ /\ \E made \in 0..1 : resamplers' = resamplers + made
               /\ au_pc' = "failed"
               /\ wav' = wav
       ELSE /\ WriteSamples(ConvertToStereo(block, signal_spec.channels))
            /\ resamplers' = resamplers
    /\ block' = <<>>
    /\ UNCHANGED <<mainv, signal_spec, decoded, au_packets>>

NextAudio == DecodeBlock \/ EndOfStream \/ ProcessAudioBuffer

SpecAudio == InitAudio /\ [][NextAudio]_vars

\* ------------------------------------------------------------------ claims

\* process_file has returned to convert_files (line 68), which has not yet
\* gone on: `call` holds how the call ended.
Returned == pc = "pf_ret"

\* The call left through `?` in its opening phase (lines 83-118).
OpeningFailed ==
    call.exit \in {"open", "probe", "track", "decoder", "create", "wavnew",
                   "rate"}

\* The output of the returned call is a finalized file whose header states
\* the frames written.
FinalizedValid ==
    /\ call.created
    /\ call.fin = 1
    /\ disk[call.stem].ex
    /\ disk[call.stem].hdr = call.written
    /\ disk[call.stem].data = call.written

\* C1: whenever the flag became true during a process_file call that got
\* past its opening phase, the output of the returned call is either a
\* finalized file whose header states the frames written, or no file at all
\* (finalize itself not failing).
C1_CancelLeavesValidFileOrNone ==
    (Returned /\ cancel_flag /\ ~OpeningFailed /\ call.exit # "finalize")
        => (FinalizedValid \/ ~call.created)

\* C2: once a between-files check has read the flag as true, no process_file
\* call is started any more and no output file changes.
C2_NoFileStartedAfterObserved ==
    [][observed => (pc' # "pf_open" /\ disk' = disk)]_vars

\* C2 witness: the batch ended after a between-files check saw the flag, with
\* an earlier output on disk and an enumerated file never started.
C2_Witness ==
    /\ pc = "done"
    /\ observed
    /\ unstarted > 0
    /\ \E s \in Stems : disk[s].ex /\ disk[s].data > 0

\* C3: when some process_file call failed and nobody cancelled, convert_files
\* has started every enumerated file and returns Ok.
C3_FailureConfinedToFile ==
    (pc = "done" /\ any_failed /\ ~cancel_flag)
        => (unstarted = 0 /\ pi > Len(paths) /\ cf_result = "Ok")

\* C4: a create_dir_all failure does not abort convert_files: the outer loop
\* still runs over all input paths and the batch returns Ok.
C4_MkdirFailureConfined ==
    (pc = "done" /\ mkdir_failed /\ ~cancel_flag)
        => (pi > Len(paths) /\ cf_result = "Ok")

\* C5: a file stopped by the cancellation flag returns something else than a
\* fully converted file (Ok) or a failed one (Err) does.
C5_CancelledOutcomeDistinct ==
    (Returned /\ call.exit = "cancel") => call.result \notin {"Ok", "Err"}

\* C6: a packet that fails in next_packet or in decoder.decode ends the
\* stream: the file is finalized with the frames written so far and the call
\* does not fail (finalize itself not failing).
C6_DecodeErrorIsEndOfStream ==
    (Returned /\ call.stop \in {"pull_error", "decode_error"}
              /\ call.exit # "finalize")
        => (call.result = "Ok" /\ FinalizedValid)

\* C7: after a failure in the opening phase no file created by the call is
\* left at the output path.
C7_OpeningFailureLeavesNoFile ==
    (Returned /\ OpeningFailed) => ~call.created

\* C8: when the WAV writer was created and the streaming loop was entered,
\* finalize has been called exactly once by the time process_file returns,
\* whichever way it returns.
C8_FinalizeExactlyOnce ==
    (Returned /\ call.writer # "none" /\ ~OpeningFailed) => call.fin = 1

\* C9: while the worker runs, a true flag stays true, and only the GUI
\* thread, never a step of the worker, changes the flag.
C9_FlagMonotonic ==
    [][/\ (cancel_flag /\ pc \notin {"idle", "done"}) => cancel_flag'
       /\ (cancel_flag' # cancel_flag) => pc' = pc]_vars

\* C9 witness: the flag is true in the middle of a file.
C9_Witness == cancel_flag /\ pc = "pf_buffer" /\ call.written > 0

\* C10: under a fair worker a flag set during the batch leads to the return of
\* convert_files with one status message sent; the file in progress pulls at
\* most one more packet and is finalized.
C10_CancelTerminates ==
    /\ (cancel_flag /\ pc \notin {"idle", "done"})
           ~> (pc = "done" /\ Len(status) = 1)
    /\ []((Returned /\ cancel_flag /\ call.writer # "none"
                    /\ ~OpeningFailed /\ call.exit # "finalize")
              => (call.pullsAfterFlag <= 1 /\ call.fin = 1))

\* ------------------------------------------------- enumeration and output

\* ASCII lower case of the characters that occur in Exts.
Lower(c) == CASE c = "M" -> "m" [] c = "P" -> "p" [] OTHER -> c

\* Two extensions are equal when case is ignored.
EqIgnoreCase(a, b) ==
    /\ Len(a) = Len(b)
    /\ \A i \in 1..Len(a) : Lower(a[i]) = Lower(b[i])

\* C11: of the files the enumeration looks at, exactly those whose extension
\* is mp3 with case ignored become candidates, and each of the others is
\* answered with a warning.
C11_CandidateIffExtensionIgnoringCase ==
    scan.kind \in {"file", "dir"} =>
        \A i \in 1..Len(scan.exts) :
            /\ scan.cand[i] <=> EqIgnoreCase(scan.exts[i], Mp3)
            /\ ~EqIgnoreCase(scan.exts[i], Mp3) => scan.warned[i]

\* C12: while the current path is a missing one, no step creates an output
\* directory and none starts process_file.
C12_MissingPathHasNoEffect ==
    [][scan.kind = "missing" => (folders' = folders /\ pc' # "pf_open")]_vars

\* C13: when the inner loop is reached, the directory CDDA_Converted exists
\* beside a file input and inside a directory input.
C13_OutputFolderAlongsideInput ==
    (pc = "inner" /\ scan.kind \in {"file", "dir"}) =>
        (IF scan.kind = "dir"
         THEN Join(PathOf(paths[pi]), "CDDA_Converted")
         ELSE Join(Parent(PathOf(paths[pi])), "CDDA_Converted")) \in folders

\* -------------------------------------------------------- sample contents

EqualRateStereo == signal_spec.rate = TargetRate /\ signal_spec.channels = 2

IsPrefix(a, b) == Len(a) <= Len(b) /\ a = SubSeq(b, 1, Len(a))

\* C14: for a 44100 Hz stereo source the samples written are the decoded
\* samples, in decode order and unchanged, and no resampler is constructed;
\* after a failed write they are the decoded samples up to the failure.
C14_EqualRateStereoIsIdentity ==
    EqualRateStereo =>
        /\ resamplers = 0
        /\ au_pc \in {"decode", "end"} => wav = decoded
        /\ au_pc = "buffer" => wav \o block = decoded
        /\ au_pc = "failed" => IsPrefix(wav, decoded)

\* C14 witness: two stereo blocks with different left and right samples
\* have been written and the stream has ended.
C14_Witness ==
    /\ EqualRateStereo
    /\ au_pc = "end"
    /\ au_packets = 2
    /\ Len(wav) = 4
    /\ wav[1] # wav[2]
    /\ wav[1] # wav[3]

\* C15: for a mono source every whole frame written has equal left and right
\* samples at either rate, and at the target rate the frames written are the
\* decoded samples, each twice, in order and at full scale.
C15_MonoFramesHaveEqualChannels ==
    signal_spec.channels = 1 =>
        /\ \A k \in 1..(Len(wav) \div 2) : wav[2 * k - 1] = wav[2 * k]
        /\ (signal_spec.rate = TargetRate /\ au_pc \in {"decode", "end"}) =>
              /\ Len(wav) = 2 * Len(decoded)
              /\ \A i \in 1..Len(decoded) :
                     wav[2 * i - 1] = decoded[i] /\ wav[2 * i] = decoded[i]

\* C15 witness: a mono block of three samples, not all equal, has been
\* written as six.
C15_Witness ==
    /\ signal_spec = [rate |-> TargetRate, channels |-> 1]
    /\ au_pc = "decode"
    /\ au_packets = 1
    /\ Len(decoded) = 3
    /\ decoded[1] # decoded[2]
    /\ Len(wav) = 6

\* C18: a file at another rate than 44100 Hz has at most one resampler
\* constructed for it, however many blocks it has.
C18_OneResamplerPerFile ==
    signal_spec.rate # TargetRate => resamplers <= 1

\* ------------------------------------------------ output files and handles

\* C16: the output path is <output folder>/<stem>.wav; once File::create
\* has run, the file there is empty whatever it held before; and when a call
\* returns Ok the file holds the frames of that call and nothing else.
C16_OutputPathReplaced ==
    /\ call.created =>
           call.path = Append(OutputFolder(PathOf(paths[pi])),
                              <<call.stem, "wav">>)
    /\ pc = "pf_wavnew" =>
           disk[call.stem] = [ex |-> TRUE, hdr |-> 0, data |-> 0]
    /\ (Returned /\ call.result = "Ok") =>
           disk[call.stem] = [ex |-> TRUE, hdr |-> call.written,
                              data |-> call.written]

\* C16 witness: the second file of a scanned directory has the stem of an
\* output written before it, and File::create has emptied that file.
C16_Witness ==
    /\ pc = "pf_wavnew"
    /\ pi = 1
    /\ fi = 2
    /\ call.replaced
    /\ disk[call.stem].data = 0

\* C17: when the head of the streaming loop is reached with the flag true,
\* the next step of the worker does not pull a packet.
C17_NoPullOnceFlagSet ==
    [][(pc = "pf_next" /\ call.flagAtHead) => pc' # "pf_check"]_vars

\* Positions of the worker inside process_file.
InProcessFile ==
    pc \in {"pf_open", "pf_probe", "pf_track", "pf_decoder", "pf_create",
            "pf_wavnew", "pf_spec", "pf_next", "pf_check", "pf_decode",
            "pf_buffer", "pf_fin_cancel", "pf_finalize", "pf_ret"}

\* C19: a call has an outcome exactly from its return on, the outcome is
\* set in the step that returns and stays as it is until the caller takes it;
\* at the return neither the input file nor the output file is open; and a
\* call exists only while the worker is inside process_file, one at a time.
C19_OneOutcomeHandlesReleased ==
    /\ [](Returned <=> call.exit # "none")
    /\ [](Returned => /\ call.result \in {"Ok", "Err"}
                      /\ call.input # "open"
                      /\ call.writer # "open")
    /\ [](~InProcessFile => call = NoCall)
    /\ [][call.exit # "none" => (call' = call \/ call' = NoCall)]_vars

\* C19 witness: a call that was cancelled in the middle of its stream has
\* returned, with both handles released.
C19_Witness ==
    /\ Returned
    /\ call.exit = "cancel"
    /\ call.written > 0
    /\ call.input = "released"
    /\ call.writer = "finalized"

\* C20: a worker is started only by a step from the idle state with
\* is_processing false and files selected, which sets is_processing; no step
\* sets is_processing back to false, the worker never returns to idle, and
\* the paths of the running batch are never replaced.
C20_AtMostOneBatch ==
    /\ [](is_processing <=> pc # "idle")
    /\ [][/\ is_processing => (is_processing' /\ paths' = paths)
          /\ (pc' = "cf_entry" /\ pc # "cf_entry") =>
                 (pc = "idle" /\ ~is_processing /\ selected_files # <<>>)
          /\ pc # "idle" => pc' # "idle"]_vars

\* C20 witness: the batch has ended and sent its status, and is_processing
\* is still true.
C20_Witness ==
    /\ pc = "done"
    /\ Len(status) = 1
    /\ is_processing
    /\ \E s \in Stems : disk[s].ex

====
